---- MODULE Spec2Model ----
(***************************************************************************)
(* Model of the TelegramSupportBot core:                                   *)
(*   - DatabaseManager (src/modules/database.py): a semaphore-gated        *)
(*     store over the sqlite table users(user_id PRIMARY KEY,              *)
(*     topic_id NOT NULL UNIQUE);                                          *)
(*   - run_bot (src/modules/bot_runner.py) and main (src/main.py): the     *)
(*     race of the polling task against the shutdown event and teardown;   *)
(*   - get_config (src/modules/config.py): MAX_DB_CONNECTIONS, DB_TIMEOUT. *)
(*                                                                         *)
(* Spec       - client tasks calling any method of the store;              *)
(* SpecFaults - a store initialized by one task, then CRUD calls that may  *)
(*              be cancelled, over connections whose close may fail;       *)
(* SpecSeq    - calls issued one at a time, over one more user and topic;  *)
(* SpecMain   - main, run_bot and one handler task, in any environment.    *)
(*                                                                         *)
(* Scheduling is asyncio's: one thread, a task runs from one await that    *)
(* suspends to the next, so each action below is the code between two      *)
(* suspension points.                                                      *)
(***************************************************************************)
EXTENDS Integers, Sequences, FiniteSets, TLC

\* ---------------------------------------------------------------- bounds
NClients == 2          \* client tasks calling the store concurrently
MaxId == 2             \* identifiers are drawn from 0..MaxId (0 is invalid)
MaxGates == 2          \* asyncio.Semaphore objects created over a run
max_connections == 1   \* DatabaseManager.max_connections in the model
MaxCfg == 1            \* MAX_DB_CONNECTIONS / DB_TIMEOUT are set to 1..MaxCfg

\* ------------------------------------------------------ program constants
DefaultMaxConnections == 5        \* DatabaseManager.__init__: max_connections = 5
DefaultTimeout == 10              \* DatabaseManager.__init__: timeout = 10.0
ConfigDefaultMaxDbConnections == 5   \* get_config: MAX_DB_CONNECTIONS, '5'
ConfigDefaultDbTimeout == 10         \* get_config: DB_TIMEOUT, '10.0'

Clients == 1..NClients
MainTask == 0
Tasks == Clients \cup {MainTask}
Ids == 0..MaxId
NoTask == -1
None == 0
Unset == 0        \* an environment variable that is not set
Malformed == -1   \* an environment variable that int() / float() rejects
EnvValues == {Unset, Malformed} \cup (1..MaxCfg)

CrudOps == {"get_user_topic", "create_user_topic", "get_user_by_topic", "delete_user_topic"}
WriteOps == {"create_user_topic", "delete_user_topic"}

VARIABLES
    \* DatabaseManager fields
    semaphore,     \* self._semaphore: None, or the id of the current Semaphore
    semValue,      \* value of every Semaphore object created so far
    initialized,   \* self._initialized
    lock,          \* holder of self._lock, or NoTask
    \* the database file
    schema,        \* the table users exists
    rows,          \* committed rows <<user_id, topic_id>>
    writer,        \* connection holding sqlite's write lock, or NoTask
    conns,         \* tasks whose physical connection is open
    pool,          \* self._pool
    maxConnections,   \* self.max_connections
    timeout,          \* self.timeout, in seconds
    \* one store call per task
    pc, op, uid, tid, gate, ret, deleted, err, cause,
    logged,        \* the call wrote a logger.error entry in the store
    \* history of the store
    closed,        \* close() has completed and initialize was not called since
    everClosed,    \* close() has completed at some time
    schemaRuns,    \* schema-creation sequences executed
    initRaised,    \* an initialize call has raised
    leaks,         \* slots never released: conn.close() did not complete
    \* the environment and get_config's Config
    envMaxDbConnections, envDbTimeout, cfgMaxDbConnections, cfgDbTimeout,
    \* run_bot / main
    mainPc, pollingTask, shutdownTask, shutdownEvent, sessionCloses,
    storeCloses, events, raised, mainExit

storeVars == <<semaphore, semValue, initialized, lock, schema, rows, writer, conns,
               pc, op, uid, tid, gate, ret, deleted, err, cause, closed, everClosed, schemaRuns, initRaised,
               leaks, pool, logged>>
cfgVars == <<envMaxDbConnections, envDbTimeout, cfgMaxDbConnections, cfgDbTimeout,
             maxConnections, timeout>>
lifeVars == <<mainPc, pollingTask, shutdownTask, shutdownEvent, sessionCloses,
              storeCloses, events, raised, mainExit, cfgVars>>
vars == <<storeVars, lifeVars>>

\* ------------------------------------------------------------ sqlite model
\* SELECT topic_id FROM users WHERE user_id = ?  (fetchone, None when no row)
SelectTopic(r, u) ==
    IF \E x \in r : x[1] = u THEN (CHOOSE x \in r : x[1] = u)[2] ELSE None

\* SELECT user_id FROM users WHERE topic_id = ?  (fetchone, None when no row)
SelectUser(r, t) ==
    IF \E x \in r : x[2] = t THEN (CHOOSE x \in r : x[2] = t)[1] ELSE None

\* INSERT OR IGNORE instead of INSERT OR REPLACE: a conflicting row wins
InsertOrIgnore(r, u, t) ==
    IF \E x \in r : x[1] = u \/ x[2] = t THEN r ELSE r \cup {<<u, t>>}

\* a plain INSERT into a table without the PRIMARY KEY constraint
InsertNoKey(r, u, t) == r \cup {<<u, t>>}

\* INSERT ... ON CONFLICT(user_id) DO UPDATE: an upsert by user only, which a
\* topic held by another user makes fail, the table staying as it is
UpsertByUserOnly(r, u, t) ==
    IF \E x \in r : x[2] = t /\ x[1] # u
        THEN r
        ELSE {x \in r : x[1] # u} \cup {<<u, t>>}

\* REPLACE on a table whose topic_id column is not UNIQUE
InsertOrReplaceNoUnique(r, u, t) ==
    {x \in r : x[1] # u} \cup {<<u, t>>}

\* INSERT OR REPLACE INTO users (user_id, topic_id) VALUES (?, ?): sqlite's
\* REPLACE conflict resolution deletes every row that violates the PRIMARY KEY
\* (user_id) or the UNIQUE (topic_id) constraint, then inserts the new row.
InsertOrReplace(r, u, t) ==
    {x \in r : x[1] # u /\ x[2] # t} \cup {<<u, t>>}

\* DELETE FROM users WHERE user_id = ?
DeleteUser(r, u) == {x \in r : x[1] # u}

\* the row count of the whole table instead of the rows deleted
RowCountAll(r, u) == Cardinality(r)

\* cursor.rowcount of that DELETE
RowCount(r, u) == Cardinality({x \in r : x[1] = u})

\* create_user_topic without its topic_id check
ValidArgsNoTopic(o, u, t) ==
    CASE o = "get_user_topic"    -> u > 0
      [] o = "delete_user_topic" -> u > 0
      [] o = "get_user_by_topic" -> t > 0
      [] o = "create_user_topic" -> u > 0

\* the isinstance / <= 0 checks opening each CRUD method
ValidArgs(o, u, t) ==
    CASE o = "get_user_topic"    -> u > 0
      [] o = "delete_user_topic" -> u > 0
      [] o = "get_user_by_topic" -> t > 0
      [] o = "create_user_topic" -> u > 0 /\ t > 0

\* the arguments a method takes: the unused one is passed as 0 in the model
TakesArgs(o, u, t) ==
    CASE o = "get_user_topic"    -> t = 0
      [] o = "delete_user_topic" -> t = 0
      [] o = "get_user_by_topic" -> u = 0
      [] o = "create_user_topic" -> TRUE

\* self._semaphore.release(): the attribute is read when the finally block runs
Release(sv, sem) == [sv EXCEPT ![sem] = @ + 1]

\* asyncio.Semaphore.acquire without blocking
Acquire(sv, sem) == [sv EXCEPT ![sem] = @ - 1]

\* ------------------------------------------------------------------- Init
InitCommon ==
    /\ semaphore = None
    /\ semValue = [g \in 1..MaxGates |-> 0]
    /\ initialized = FALSE
    /\ lock = NoTask
    /\ schema = FALSE
    /\ rows = {}
    /\ writer = NoTask
    /\ conns = {}
    /\ pc = [p \in Tasks |-> "idle"]
    /\ op = [p \in Tasks |-> "none"]
    /\ uid = [p \in Tasks |-> 0]
    /\ tid = [p \in Tasks |-> 0]
    /\ gate = [p \in Tasks |-> None]
    /\ ret = [p \in Tasks |-> None]
    /\ deleted = [p \in Tasks |-> FALSE]
    /\ err = [p \in Tasks |-> "none"]
    /\ cause = [p \in Tasks |-> "none"]
    /\ closed = FALSE
    /\ everClosed = FALSE
    /\ schemaRuns = 0
    /\ initRaised = FALSE
    /\ mainPc = "start"
    /\ pollingTask = "none"
    /\ shutdownTask = "none"
    /\ shutdownEvent = FALSE
    /\ sessionCloses = 0
    /\ storeCloses = 0
    /\ events = <<>>
    /\ raised = "none"
    /\ mainExit = "running"
    /\ pool = {}
    /\ leaks = 0
    /\ logged = [p \in Tasks |-> FALSE]
    /\ cfgMaxDbConnections = 0
    /\ cfgDbTimeout = 0

\* the store under its clients: DatabaseManager(db_path, max_connections)
Init ==
    /\ InitCommon
    /\ envMaxDbConnections = Unset
    /\ envDbTimeout = Unset
    /\ maxConnections = max_connections
    /\ timeout = DefaultTimeout

\* the process before main runs: any environment, no DatabaseManager yet
InitMain ==
    /\ InitCommon
    /\ envMaxDbConnections \in EnvValues
    /\ envDbTimeout \in EnvValues
    /\ maxConnections = 0
    /\ timeout = 0

\* a call ends: its outcome is in ret / deleted / err / cause while pc = "done"
Finish(p, r, e, c) ==
    /\ pc' = [pc EXCEPT ![p] = "done"]
    /\ ret' = [ret EXCEPT ![p] = r]
    /\ err' = [err EXCEPT ![p] = e]
    /\ cause' = [cause EXCEPT ![p] = c]

\* ------------------------------------------------------- CRUD operations
\* A CRUD method from its call to its first suspension: validation, then
\* _get_connection's None check and semaphore acquire.
CallCrud(p, o, u, t) ==
    /\ pc[p] = "idle"
    /\ TakesArgs(o, u, t)
    /\ op' = [op EXCEPT ![p] = o]
    /\ uid' = [uid EXCEPT ![p] = u]
    /\ tid' = [tid EXCEPT ![p] = t]
    /\ IF ~ValidArgs(o, u, t)
         THEN /\ Finish(p, None, "ValueError", "InvalidArgument")
              /\ UNCHANGED <<semValue, gate, logged>>
       ELSE IF semaphore = None
         THEN \* DatabaseError raised in _get_connection, caught by the
              \* method's `except Exception` and re-raised as DatabaseError
              /\ Finish(p, None, "DatabaseError", "NotInitialized")
              /\ logged' = [logged EXCEPT ![p] = TRUE]
              /\ UNCHANGED <<semValue, gate>>
       ELSE IF semValue[semaphore] > 0
         THEN /\ semValue' = Acquire(semValue, semaphore)
              /\ pc' = [pc EXCEPT ![p] = "connect"]
              /\ UNCHANGED <<gate, ret, err, cause, logged>>
       ELSE /\ gate' = [gate EXCEPT ![p] = semaphore]
            /\ pc' = [pc EXCEPT ![p] = "acquire"]
            /\ UNCHANGED <<semValue, ret, err, cause, logged>>
    /\ UNCHANGED <<semaphore, initialized, lock, schema, rows, writer, conns,
                   closed, everClosed, schemaRuns, initRaised, deleted, leaks, pool, lifeVars>>

\* a task blocked in semaphore.acquire() is woken: it waits on the Semaphore
\* object it read from self._semaphore when it called acquire
AcquireWake(p) ==
    /\ pc[p] = "acquire"
    /\ semValue[gate[p]] > 0
    /\ semValue' = Acquire(semValue, gate[p])
    /\ gate' = [gate EXCEPT ![p] = None]
    /\ pc' = [pc EXCEPT ![p] = "connect"]
    /\ UNCHANGED <<semaphore, initialized, lock, schema, rows, writer, conns,
                   op, uid, tid, ret, err, cause,
                   closed, everClosed, schemaRuns, initRaised, deleted, leaks, pool, logged, lifeVars>>

\* asyncio.wait_for(aiosqlite.connect(...)) succeeds
ConnectOk(p) ==
    /\ pc[p] = "connect"
    /\ op[p] \in CrudOps
    /\ conns' = conns \cup {p}
    /\ pc' = [pc EXCEPT ![p] = "query"]
    /\ UNCHANGED <<semaphore, semValue, initialized, lock, schema, rows, writer,
                   op, uid, tid, gate, ret, err, cause,
                   closed, everClosed, schemaRuns, initRaised, deleted, leaks, pool, logged, lifeVars>>

\* the connect times out or fails: conn is None, the finally block releases
\* the slot, the method logs and raises DatabaseError
ConnectFail(p, c) ==
    /\ pc[p] = "connect"
    /\ op[p] \in CrudOps
    /\ c \in {"Timeout", "Driver"}
    /\ semValue' = Release(semValue, semaphore)
    /\ Finish(p, None, "DatabaseError", c)
    /\ logged' = [logged EXCEPT ![p] = TRUE]
    /\ UNCHANGED <<semaphore, initialized, lock, schema, rows, writer, conns,
                   op, uid, tid, gate,
                   closed, everClosed, schemaRuns, initRaised, deleted, leaks, pool, lifeVars>>

\* the two SELECT methods: execute and fetchone
Select(p) ==
    /\ pc[p] = "query"
    /\ op[p] \in {"get_user_topic", "get_user_by_topic"}
    /\ schema
    /\ ret' = [ret EXCEPT ![p] = IF op[p] = "get_user_topic"
                                   THEN SelectTopic(rows, uid[p])
                                   ELSE SelectUser(rows, tid[p])]
    /\ pc' = [pc EXCEPT ![p] = "close"]
    /\ UNCHANGED <<semaphore, semValue, initialized, lock, schema, rows, writer, conns,
                   op, uid, tid, gate, err, cause,
                   closed, everClosed, schemaRuns, initRaised, deleted, leaks, pool, logged, lifeVars>>

\* conn.execute of INSERT OR REPLACE / DELETE: the statement opens a
\* transaction and takes sqlite's write lock until commit or close
Execute(p) ==
    /\ pc[p] = "query"
    /\ op[p] \in WriteOps
    /\ schema
    /\ writer = NoTask
    /\ writer' = p
    /\ pc' = [pc EXCEPT ![p] = "commit"]
    /\ UNCHANGED <<semaphore, semValue, initialized, lock, schema, rows, conns,
                   op, uid, tid, gate, ret, err, cause,
                   closed, everClosed, schemaRuns, initRaised, deleted, leaks, pool, logged, lifeVars>>

\* conn.commit(): the statement's effect becomes the committed state
Commit(p) ==
    /\ pc[p] = "commit"
    /\ writer = p
    /\ writer' = NoTask
    /\ IF op[p] = "create_user_topic"
         THEN /\ rows' = InsertOrReplace(rows, uid[p], tid[p])
              /\ deleted' = deleted
         ELSE /\ rows' = DeleteUser(rows, uid[p])
              /\ deleted' = [deleted EXCEPT ![p] = RowCount(rows, uid[p]) > 0]
    /\ pc' = [pc EXCEPT ![p] = "close"]
    /\ UNCHANGED <<semaphore, semValue, initialized, lock, schema, conns,
                   op, uid, tid, gate, err, cause,
                   closed, everClosed, schemaRuns, initRaised, ret, leaks, pool, logged, lifeVars>>

\* execute or commit raises (no such table, database is locked, I/O error):
\* the exception unwinds to _get_connection's finally
QueryFail(p) ==
    /\ pc[p] \in {"query", "commit"}
    /\ op[p] \in CrudOps
    /\ err' = [err EXCEPT ![p] = "DatabaseError"]
    /\ cause' = [cause EXCEPT ![p] = "Driver"]
    /\ pc' = [pc EXCEPT ![p] = "close"]
    /\ UNCHANGED <<semaphore, semValue, initialized, lock, schema, rows, writer, conns,
                   op, uid, tid, gate, ret,
                   closed, everClosed, schemaRuns, initRaised, deleted, leaks, pool, logged, lifeVars>>

\* _get_connection's finally: conn.close() (an open transaction is rolled
\* back), then self._semaphore.release(); the method returns or raises
CloseConn(p) ==
    /\ pc[p] = "close"
    /\ op[p] \in CrudOps
    /\ conns' = conns \ {p}
    /\ writer' = IF writer = p THEN NoTask ELSE writer
    /\ semValue' = Release(semValue, semaphore)
    /\ pc' = [pc EXCEPT ![p] = "done"]
    /\ ret' = [ret EXCEPT ![p] = IF err[p] = "none" THEN @ ELSE None]
    /\ deleted' = [deleted EXCEPT ![p] = IF err[p] = "none" THEN @ ELSE FALSE]
    /\ logged' = [logged EXCEPT ![p] = err[p] = "DatabaseError"]
    /\ UNCHANGED <<semaphore, initialized, lock, schema, rows,
                   op, uid, tid, gate, err, cause,
                   closed, everClosed, schemaRuns, initRaised, leaks, pool, lifeVars>>

\* conn.close() raises in _get_connection's finally: the release on the next
\* line is not reached, so the slot is never given back; the exception
\* replaces the body's outcome, the method logs it and raises DatabaseError
CloseConnFail(p) ==
    /\ pc[p] = "close"
    /\ op[p] \in CrudOps
    /\ conns' = conns \ {p}
    /\ writer' = IF writer = p THEN NoTask ELSE writer
    /\ leaks' = leaks + 1
    /\ Finish(p, None, "DatabaseError", "Driver")
    /\ deleted' = [deleted EXCEPT ![p] = FALSE]
    /\ logged' = [logged EXCEPT ![p] = TRUE]
    /\ UNCHANGED <<semaphore, semValue, initialized, lock, schema, rows,
                   op, uid, tid, gate,
                   closed, everClosed, schemaRuns, initRaised, pool, lifeVars>>

\* the task running a CRUD method is cancelled: CancelledError is raised at
\* the await the task is suspended in.  It is not an Exception, so no except
\* clause of the method catches it.
\*   acquire          - the waiter leaves the Semaphore's queue
\*   connect          - conn is None: the finally block releases the slot
\*   execute / commit - the finally block starts conn.close()
\*   conn.close()     - the await in the finally block is interrupted and
\*                      the release after it is skipped
Cancel(p) ==
    /\ op[p] \in CrudOps
    /\ pc[p] \in {"acquire", "connect", "query", "commit", "close"}
    /\ err' = [err EXCEPT ![p] = "CancelledError"]
    /\ cause' = [cause EXCEPT ![p] = "Cancelled"]
    /\ ret' = [ret EXCEPT ![p] = None]
    /\ deleted' = [deleted EXCEPT ![p] = FALSE]
    /\ pc' = [pc EXCEPT ![p] = IF pc[p] \in {"query", "commit"} THEN "close" ELSE "done"]
    /\ gate' = [gate EXCEPT ![p] = None]
    /\ semValue' = IF pc[p] = "connect" THEN Release(semValue, semaphore) ELSE semValue
    /\ leaks' = IF pc[p] = "close" THEN leaks + 1 ELSE leaks
    /\ conns' = IF pc[p] = "close" THEN conns \ {p} ELSE conns
    /\ writer' = IF pc[p] = "close" /\ writer = p THEN NoTask ELSE writer
    /\ UNCHANGED <<semaphore, initialized, lock, schema, rows,
                   op, uid, tid, logged,
                   closed, everClosed, schemaRuns, initRaised, pool, lifeVars>>

\* the frame of a finished call is dropped
ResetCall(p) ==
    /\ pc' = [pc EXCEPT ![p] = "idle"]
    /\ op' = [op EXCEPT ![p] = "none"]
    /\ uid' = [uid EXCEPT ![p] = 0]
    /\ tid' = [tid EXCEPT ![p] = 0]
    /\ ret' = [ret EXCEPT ![p] = None]
    /\ deleted' = [deleted EXCEPT ![p] = FALSE]
    /\ err' = [err EXCEPT ![p] = "none"]
    /\ cause' = [cause EXCEPT ![p] = "none"]
    /\ logged' = [logged EXCEPT ![p] = FALSE]

\* the caller takes the outcome; the task may issue another call
Return(p) ==
    /\ pc[p] = "done"
    /\ ResetCall(p)
    /\ UNCHANGED <<semaphore, semValue, initialized, lock, schema, rows, writer, conns,
                   gate, closed, everClosed, schemaRuns, initRaised, leaks, pool, lifeVars>>

\* ------------------------------------------------ initialize and close
\* initialize without its `if self._initialized: return`
EnterInitializeNoCheck(p) ==
    /\ closed' = FALSE
    /\ semaphore < MaxGates
    /\ semaphore' = semaphore + 1
    /\ semValue' = [semValue EXCEPT ![semaphore + 1] = maxConnections - 1]
    /\ gate' = gate
    /\ lock' = p
    /\ pc' = [pc EXCEPT ![p] = "connect"]
    /\ UNCHANGED <<ret, err, cause>>

\* initialize once it holds self._lock, up to its first suspension: the
\* _initialized check, the new Semaphore, _get_connection's acquire (the new
\* Semaphore has max_connections >= 1 permits and no waiter, so the acquire
\* does not block and leaves max_connections - 1)
EnterInitialize(p) ==
    /\ closed' = FALSE
    /\ IF initialized
         THEN /\ Finish(p, None, "none", "none")
              /\ UNCHANGED <<semaphore, semValue, lock, gate>>
         ELSE /\ semaphore < MaxGates
              /\ semaphore' = semaphore + 1
              /\ semValue' = [semValue EXCEPT ![semaphore + 1] = maxConnections - 1]
              /\ gate' = gate
              /\ lock' = p
              /\ pc' = [pc EXCEPT ![p] = "connect"]
              /\ UNCHANGED <<ret, err, cause>>

\* await db_manager.initialize()
CallInitialize(p) ==
    /\ pc[p] = "idle"
    /\ op' = [op EXCEPT ![p] = "initialize"]
    /\ IF lock = NoTask
         THEN EnterInitialize(p)
         ELSE /\ pc' = [pc EXCEPT ![p] = "lock"]
              /\ closed' = FALSE
              /\ UNCHANGED <<semaphore, semValue, lock, gate, ret, err, cause>>
    /\ UNCHANGED <<initialized, schema, rows, writer, conns, uid, tid, deleted,
                   everClosed, schemaRuns, initRaised, leaks, pool, logged, lifeVars>>

\* a task blocked on self._lock in initialize gets the lock
LockWakeInitialize(p) ==
    /\ pc[p] = "lock"
    /\ op[p] = "initialize"
    /\ lock = NoTask
    /\ EnterInitialize(p)
    /\ UNCHANGED <<initialized, schema, rows, writer, conns, op, uid, tid, deleted,
                   everClosed, schemaRuns, initRaised, leaks, pool, logged, lifeVars>>

\* initialize's connect succeeds
InitConnectOk(p) ==
    /\ pc[p] = "connect"
    /\ op[p] = "initialize"
    /\ conns' = conns \cup {p}
    /\ pc' = [pc EXCEPT ![p] = "query"]
    /\ UNCHANGED <<semaphore, semValue, initialized, lock, schema, rows, writer,
                   op, uid, tid, gate, ret, deleted, err, cause,
                   closed, everClosed, schemaRuns, initRaised, leaks, pool, logged, lifeVars>>

\* initialize's connect times out or fails: the slot is released, the lock
\* is released, the exception leaves initialize as it is
InitConnectFail(p, c) ==
    /\ pc[p] = "connect"
    /\ op[p] = "initialize"
    /\ c \in {"Timeout", "Driver"}
    /\ semValue' = Release(semValue, semaphore)
    /\ lock' = NoTask
    /\ initRaised' = TRUE
    /\ Finish(p, None, IF c = "Timeout" THEN "TimeoutError" ELSE "Exception", c)
    /\ UNCHANGED <<semaphore, initialized, schema, rows, writer, conns,
                   op, uid, tid, gate, deleted,
                   closed, everClosed, schemaRuns, leaks, pool, logged, lifeVars>>

\* the PRAGMAs, CREATE TABLE / INDEX / TRIGGER IF NOT EXISTS and the commit
SchemaOk(p) ==
    /\ pc[p] = "query"
    /\ op[p] = "initialize"
    /\ schema' = TRUE
    /\ schemaRuns' = schemaRuns + 1
    /\ pc' = [pc EXCEPT ![p] = "close"]
    /\ UNCHANGED <<semaphore, semValue, initialized, lock, rows, writer, conns,
                   op, uid, tid, gate, ret, deleted, err, cause,
                   closed, everClosed, initRaised, leaks, pool, logged, lifeVars>>

\* a statement of the schema sequence raises
SchemaFail(p) ==
    /\ pc[p] = "query"
    /\ op[p] = "initialize"
    /\ err' = [err EXCEPT ![p] = "Exception"]
    /\ cause' = [cause EXCEPT ![p] = "Driver"]
    /\ pc' = [pc EXCEPT ![p] = "close"]
    /\ UNCHANGED <<semaphore, semValue, initialized, lock, schema, rows, writer, conns,
                   op, uid, tid, gate, ret, deleted,
                   closed, everClosed, schemaRuns, initRaised, leaks, pool, logged, lifeVars>>

\* initialize leaves _get_connection (close, release); on the normal path it
\* sets _initialized; the lock is released either way
InitCloseConn(p) ==
    /\ pc[p] = "close"
    /\ op[p] = "initialize"
    /\ conns' = conns \ {p}
    /\ semValue' = Release(semValue, semaphore)
    /\ initialized' = IF err[p] = "none" THEN TRUE ELSE initialized
    /\ initRaised' = IF err[p] = "none" THEN initRaised ELSE TRUE
    /\ lock' = NoTask
    /\ pc' = [pc EXCEPT ![p] = "done"]
    /\ UNCHANGED <<semaphore, schema, rows, writer,
                   op, uid, tid, gate, ret, deleted, err, cause,
                   closed, everClosed, schemaRuns, leaks, pool, logged, lifeVars>>

\* conn.close() raises in initialize's _get_connection: the slot is not
\* released, _initialized is not set, the lock is released, the exception
\* leaves initialize
InitCloseConnFail(p) ==
    /\ pc[p] = "close"
    /\ op[p] = "initialize"
    /\ conns' = conns \ {p}
    /\ leaks' = leaks + 1
    /\ initRaised' = TRUE
    /\ lock' = NoTask
    /\ Finish(p, None, "Exception", "Driver")
    /\ UNCHANGED <<semaphore, semValue, initialized, schema, rows, writer,
                   op, uid, tid, gate, deleted,
                   closed, everClosed, schemaRuns, pool, logged, lifeVars>>

\* a close that refuses a store that is not Ready
EnterCloseOnlyReady(p) ==
    /\ pool' = {}
    /\ initialized' = FALSE
    /\ closed' = TRUE
    /\ everClosed' = TRUE
    /\ Finish(p, None, IF initialized THEN "none" ELSE "DatabaseError",
                       IF initialized THEN "none" ELSE "NotInitialized")

\* close once it holds self._lock: the pool (always empty) is closed and
\* cleared, _initialized is reset; _semaphore is left as it is
EnterClose(p) ==
    /\ pool' = {}
    /\ initialized' = FALSE
    /\ closed' = TRUE
    /\ everClosed' = TRUE
    /\ Finish(p, None, "none", "none")

\* await db_manager.close()
CallClose(p) ==
    /\ pc[p] = "idle"
    /\ op' = [op EXCEPT ![p] = "close"]
    /\ IF lock = NoTask
         THEN EnterClose(p)
         ELSE /\ pc' = [pc EXCEPT ![p] = "lock"]
              /\ UNCHANGED <<initialized, pool, closed, everClosed, ret, err, cause>>
    /\ UNCHANGED <<semaphore, semValue, lock, schema, rows, writer, conns,
                   uid, tid, gate, deleted, schemaRuns, initRaised, leaks, logged, lifeVars>>

\* a task blocked on self._lock in close gets the lock
LockWakeClose(p) ==
    /\ pc[p] = "lock"
    /\ op[p] = "close"
    /\ lock = NoTask
    /\ EnterClose(p)
    /\ UNCHANGED <<semaphore, semValue, lock, schema, rows, writer, conns,
                   op, uid, tid, gate, deleted, schemaRuns, initRaised, leaks, logged, lifeVars>>

\* ------------------------------------------------- the store under clients
StoreStep(p) ==
    \/ \E o \in CrudOps, u \in Ids, t \in Ids : CallCrud(p, o, u, t)
    \/ AcquireWake(p)
    \/ ConnectOk(p)
    \/ \E c \in {"Timeout", "Driver"} : ConnectFail(p, c)
    \/ Select(p)
    \/ Execute(p)
    \/ Commit(p)
    \/ QueryFail(p)
    \/ CloseConn(p)
    \/ Return(p)
    \/ CallInitialize(p)
    \/ LockWakeInitialize(p)
    \/ InitConnectOk(p)
    \/ \E c \in {"Timeout", "Driver"} : InitConnectFail(p, c)
    \/ SchemaOk(p)
    \/ SchemaFail(p)
    \/ InitCloseConn(p)
    \/ CallClose(p)
    \/ LockWakeClose(p)

Next == \E p \in Clients : StoreStep(p)

Spec == Init /\ [][Next]_vars

\* ---------------------------- the store under clients, with more faults
\* a CRUD method of a task that may be cancelled, over connections whose
\* close may fail
FaultStep(p) ==
    \/ \E o \in CrudOps, u \in Ids, t \in Ids : CallCrud(p, o, u, t)
    \/ AcquireWake(p)
    \/ ConnectOk(p)
    \/ \E c \in {"Timeout", "Driver"} : ConnectFail(p, c)
    \/ Select(p)
    \/ Execute(p)
    \/ Commit(p)
    \/ QueryFail(p)
    \/ CloseConn(p)
    \/ CloseConnFail(p)
    \/ Cancel(p)
    \/ Return(p)

\* initialize as one task runs it before the store is used, again after a
\* failure, until it succeeds
FirstInitialize ==
    \/ /\ ~initialized
       /\ CallInitialize(1)
    \/ InitConnectOk(1)
    \/ \E c \in {"Timeout", "Driver"} : InitConnectFail(1, c)
    \/ SchemaOk(1)
    \/ SchemaFail(1)
    \/ InitCloseConn(1)
    \/ InitCloseConnFail(1)
    \/ /\ ~initialized
       /\ Return(1)

NextFaults ==
    \/ FirstInitialize
    \/ /\ initialized
       /\ \E p \in Clients : FaultStep(p)

SpecFaults == Init /\ [][NextFaults]_vars

\* --------------------------------- the store under one call at a time
\* identifiers of the sequential runs: one more user and topic than Ids
SeqIds == 0..(MaxId + 1)

\* a step of task p's call, with no failure of the driver
SeqStep(p) ==
    \/ CallInitialize(p)
    \/ InitConnectOk(p)
    \/ SchemaOk(p)
    \/ InitCloseConn(p)
    \/ \E o \in CrudOps, u \in SeqIds, t \in SeqIds : CallCrud(p, o, u, t)
    \/ ConnectOk(p)
    \/ Select(p)
    \/ Execute(p)
    \/ Commit(p)
    \/ CloseConn(p)
    \/ Return(p)

\* callers that await each call before the next one is issued
NextSeq ==
    \E p \in Clients :
        /\ \A q \in Clients \ {p} : pc[q] \in {"idle", "done"}
        /\ SeqStep(p)

SpecSeq == Init /\ [][NextSeq]_vars

\* ------------------------------------------------------- main and run_bot
dbVars == <<semaphore, semValue, initialized, lock, schema, rows, writer, conns,
            gate, closed, everClosed, schemaRuns, initRaised, leaks, pool>>

\* _get_optional_env and _parse_int / _parse_float: the default when the
\* variable is not set, the parsed number otherwise
ParseOptional(value, default) == IF value = Unset THEN default ELSE value

\* main up to `await db_manager.initialize()`: get_config raises ConfigError
\* on a malformed number; otherwise the Config is built and the store is
\* constructed as DatabaseManager(db_path)
MainStart ==
    /\ mainPc = "start"
    /\ IF envMaxDbConnections = Malformed \/ envDbTimeout = Malformed
         THEN /\ mainPc' = "exit"
              /\ raised' = "ConfigError"
              /\ mainExit' = "raised"
              /\ UNCHANGED <<cfgMaxDbConnections, cfgDbTimeout, maxConnections, timeout>>
         ELSE /\ cfgMaxDbConnections' = ParseOptional(envMaxDbConnections,
                                                       ConfigDefaultMaxDbConnections)
              /\ cfgDbTimeout' = ParseOptional(envDbTimeout, ConfigDefaultDbTimeout)
              /\ maxConnections' = DefaultMaxConnections
              /\ timeout' = DefaultTimeout
              /\ mainPc' = "initialize"
              /\ UNCHANGED <<raised, mainExit>>
    /\ UNCHANGED <<storeVars, envMaxDbConnections, envDbTimeout, pollingTask, shutdownTask,
                   shutdownEvent, sessionCloses, storeCloses, events>>

\* db_manager.initialize() as main's task runs it
MainInitialize ==
    /\ mainPc = "initialize"
    /\ \/ CallInitialize(MainTask)
       \/ InitConnectOk(MainTask)
       \/ \E c \in {"Timeout", "Driver"} : InitConnectFail(MainTask, c)
       \/ SchemaOk(MainTask)
       \/ SchemaFail(MainTask)
       \/ InitCloseConn(MainTask)
       \/ InitCloseConnFail(MainTask)

\* initialize returned: the Event is created and the signal handlers are
\* installed; or it raised, outside main's try block
MainAfterInitialize ==
    /\ mainPc = "initialize"
    /\ pc[MainTask] = "done"
    /\ ResetCall(MainTask)
    /\ IF err[MainTask] = "none"
         THEN /\ mainPc' = "run_bot"
              /\ UNCHANGED <<raised, mainExit>>
         ELSE /\ mainPc' = "exit"
              /\ raised' = "Exception"
              /\ mainExit' = "raised"
    /\ UNCHANGED <<dbVars, cfgVars, pollingTask, shutdownTask, shutdownEvent, sessionCloses,
                   storeCloses, events>>

\* signal_handler: SIGINT or SIGTERM arrives once the handlers are installed
Signal ==
    /\ mainPc \notin {"start", "initialize", "exit"}
    /\ ~shutdownEvent
    /\ shutdownEvent' = TRUE
    /\ UNCHANGED <<storeVars, cfgVars, mainPc, pollingTask, shutdownTask, sessionCloses,
                   storeCloses, events, raised, mainExit>>

\* run_bot up to asyncio.wait: both tasks are created
RunBotStart ==
    /\ mainPc = "run_bot"
    /\ pollingTask' = "running"
    /\ shutdownTask' = "waiting"
    /\ mainPc' = "wait"
    /\ UNCHANGED <<storeVars, cfgVars, shutdownEvent, sessionCloses, storeCloses, events,
                   raised, mainExit>>

\* dp.start_polling(bot) ends on its own, with an exception or normally
PollingEnds(how) ==
    /\ pollingTask = "running"
    /\ how \in {"failed", "returned"}
    /\ pollingTask' = how
    /\ UNCHANGED <<storeVars, cfgVars, mainPc, shutdownTask, shutdownEvent, sessionCloses,
                   storeCloses, events, raised, mainExit>>

\* shutdown_event.wait() returns
ShutdownObserved ==
    /\ shutdownTask = "waiting"
    /\ shutdownEvent
    /\ shutdownTask' = "done"
    /\ UNCHANGED <<storeVars, cfgVars, mainPc, pollingTask, shutdownEvent, sessionCloses,
                   storeCloses, events, raised, mainExit>>

\* asyncio.wait returns on FIRST_COMPLETED; the loop cancels the pending task
\* (at most one) and awaits it
WaitReturns ==
    /\ mainPc = "wait"
    /\ pollingTask \in {"failed", "returned"} \/ shutdownTask = "done"
    /\ IF pollingTask = "running"
         THEN /\ pollingTask' = "cancelling"
              /\ events' = Append(events, "cancel_polling")
              /\ mainPc' = "await_polling"
              /\ UNCHANGED shutdownTask
       ELSE IF shutdownTask = "waiting"
         THEN /\ shutdownTask' = "cancelling"
              /\ events' = Append(events, "cancel_shutdown")
              /\ mainPc' = "await_shutdown"
              /\ UNCHANGED pollingTask
       ELSE /\ mainPc' = "session_close"
            /\ UNCHANGED <<pollingTask, shutdownTask, events>>
    /\ UNCHANGED <<storeVars, cfgVars, shutdownEvent, sessionCloses, storeCloses, raised, mainExit>>

\* the cancelled polling task ends: with CancelledError, with a normal return
\* (it caught the cancellation) or with another exception from its cleanup
PollingCancelled(how) ==
    /\ pollingTask = "cancelling"
    /\ how \in {"cancelled", "returned", "failed"}
    /\ pollingTask' = how
    /\ UNCHANGED <<storeVars, cfgVars, mainPc, shutdownTask, shutdownEvent, sessionCloses,
                   storeCloses, events, raised, mainExit>>

\* `await task` on the polling task: only CancelledError is swallowed
AwaitPolling ==
    /\ mainPc = "await_polling"
    /\ pollingTask \in {"cancelled", "returned", "failed"}
    /\ IF pollingTask = "failed"
         THEN /\ raised' = "Exception"
              /\ mainPc' = "except"
              /\ events' = events
         ELSE /\ events' = Append(events, "polling_awaited")
              /\ mainPc' = "session_close"
              /\ raised' = raised
    /\ UNCHANGED <<storeVars, cfgVars, pollingTask, shutdownTask, shutdownEvent, sessionCloses,
                   storeCloses, mainExit>>

\* the cancelled Event.wait() task ends with CancelledError
ShutdownCancelled ==
    /\ shutdownTask = "cancelling"
    /\ shutdownTask' = "cancelled"
    /\ UNCHANGED <<storeVars, cfgVars, mainPc, pollingTask, shutdownEvent, sessionCloses,
                   storeCloses, events, raised, mainExit>>

\* `await task` on the shutdown task
AwaitShutdown ==
    /\ mainPc = "await_shutdown"
    /\ shutdownTask = "cancelled"
    /\ mainPc' = "session_close"
    /\ UNCHANGED <<storeVars, cfgVars, pollingTask, shutdownTask, shutdownEvent, sessionCloses,
                   storeCloses, events, raised, mainExit>>

\* await bot.session.close(); run_bot returns normally
SessionClose ==
    /\ mainPc = "session_close"
    /\ sessionCloses' = sessionCloses + 1
    /\ events' = Append(events, "session_close")
    /\ mainPc' = "finally"
    /\ UNCHANGED <<storeVars, cfgVars, pollingTask, shutdownTask, shutdownEvent, storeCloses,
                   raised, mainExit>>

\* main's `except Exception`: logger.exception, then raise
MainExcept ==
    /\ mainPc = "except"
    /\ events' = Append(events, "critical_logged")
    /\ mainPc' = "finally"
    /\ UNCHANGED <<storeVars, cfgVars, pollingTask, shutdownTask, shutdownEvent, sessionCloses,
                   storeCloses, raised, mainExit>>

\* main's finally: await db_manager.close()
MainClose ==
    /\ mainPc = "finally"
    /\ CallClose(MainTask)

\* close returned: "stopped" is logged and main returns, or the exception
\* caught above leaves main
MainExit ==
    /\ mainPc = "finally"
    /\ pc[MainTask] = "done"
    /\ ResetCall(MainTask)
    /\ storeCloses' = storeCloses + 1
    /\ events' = Append(events, "store_close")
    /\ mainExit' = IF raised = "none" THEN "returned" ELSE "raised"
    /\ mainPc' = "exit"
    /\ UNCHANGED <<dbVars, cfgVars, pollingTask, shutdownTask, shutdownEvent, sessionCloses, raised>>

\* a handler registered by register_handlers runs a CRUD method: handlers are
\* started by the polling task; a call in flight goes on when polling ends.
\* One handler alone finds the gate without a free permit only after every
\* slot was lost to a conn.close() that did not complete; no holder is left
\* then, so a handler that blocks in acquire is never woken.
Handler(p) ==
    \/ /\ pollingTask = "running"
       /\ \E o \in CrudOps, u \in Ids, t \in Ids : CallCrud(p, o, u, t)
    \/ ConnectOk(p)
    \/ \E c \in {"Timeout", "Driver"} : ConnectFail(p, c)
    \/ Select(p)
    \/ Execute(p)
    \/ Commit(p)
    \/ QueryFail(p)
    \/ CloseConn(p)
    \/ CloseConnFail(p)
    \/ Cancel(p)
    \/ Return(p)

NextMain ==
    \/ MainStart
    \/ MainInitialize
    \/ MainAfterInitialize
    \/ Signal
    \/ RunBotStart
    \/ \E how \in {"failed", "returned"} : PollingEnds(how)
    \/ ShutdownObserved
    \/ WaitReturns
    \/ \E how \in {"cancelled", "returned", "failed"} : PollingCancelled(how)
    \/ AwaitPolling
    \/ ShutdownCancelled
    \/ AwaitShutdown
    \/ SessionClose
    \/ MainExcept
    \/ MainClose
    \/ MainExit
    \/ Handler(1)

SpecMain == InitMain /\ [][NextMain]_vars

\* ==================================================================== claims

\* C1: with max_connections = N, the number of physical connections open at
\* the same time never exceeds N, whatever the interleaving of the store's
\* operations.
C1_ConnectionBound == Cardinality(conns) <= max_connections
\* a create_user_topic call of p commits in this step
CreateCommits(p) ==
    /\ pc[p] = "commit" /\ op[p] = "create_user_topic"
    /\ pc'[p] = "close" /\ err'[p] = "none"

\* a delete_user_topic call of p commits in this step
DeleteCommits(p) ==
    /\ pc[p] = "commit" /\ op[p] = "delete_user_topic"
    /\ pc'[p] = "close" /\ err'[p] = "none"

\* C2: once create_user_topic(u, t) has committed, and before any other
\* operation, the lookup by user gives t and the lookup by topic gives u.
C2_RoundTrip ==
    [][\A p \in Clients : CreateCommits(p) =>
          /\ SelectTopic(rows', uid[p]) = tid[p]
          /\ SelectUser(rows', tid[p]) = uid[p]]_vars

\* C2 happens: on a store initialized once, a create has returned and a
\* get_user_topic of the same user has returned the topic it wrote
C2_Witness ==
    \E p, q \in Clients :
        /\ p # q /\ initialized /\ semaphore = 1
        /\ pc[p] = "done" /\ op[p] = "create_user_topic" /\ err[p] = "none"
        /\ pc[q] = "done" /\ op[q] = "get_user_topic" /\ err[q] = "none"
        /\ uid[q] = uid[p] /\ ret[q] = tid[p]
        /\ <<uid[p], tid[p]>> \in rows

\* C3: create_user_topic(u, t2) on a store that maps u to t1 leaves exactly
\* one row for u, mapping it to t2, and no user of t1 when t1 # t2; with
\* t1 = t2 the rows are what they were.
C3_Upsert ==
    [][\A p \in Clients : CreateCommits(p) /\ SelectTopic(rows, uid[p]) # None =>
          /\ Cardinality({x \in rows' : x[1] = uid[p]}) = 1
          /\ SelectTopic(rows', uid[p]) = tid[p]
          /\ SelectTopic(rows, uid[p]) # tid[p]
                => SelectUser(rows', SelectTopic(rows, uid[p])) = None
          /\ SelectTopic(rows, uid[p]) = tid[p] => rows' = rows]_vars

\* C3 happens: u was mapped to t1 by a create that has returned, and a second
\* create has replaced t1 by t2
C3_Witness ==
    \E p, q \in Clients :
        /\ p # q /\ initialized /\ semaphore = 1
        /\ pc[p] = "done" /\ op[p] = "create_user_topic" /\ err[p] = "none"
        /\ pc[q] = "close" /\ op[q] = "create_user_topic" /\ err[q] = "none"
        /\ uid[p] = uid[q] /\ tid[p] # tid[q]
        /\ SelectTopic(rows, uid[q]) = tid[q]
        /\ SelectUser(rows, tid[p]) = None

\* C4: delete_user_topic(u) returns true exactly when u had a row, leaves u
\* without a row, and changes nothing when u had none.
C4_Delete ==
    [][\A p \in Clients : DeleteCommits(p) =>
          /\ deleted'[p] = (SelectTopic(rows, uid[p]) # None)
          /\ SelectTopic(rows', uid[p]) = None
          /\ SelectTopic(rows, uid[p]) = None => rows' = rows
          /\ \A x \in rows : x[1] # uid[p] => x \in rows']_vars

\* C4 happens: one delete of u returned true and a later delete of the same u
\* returned false
C4_Witness ==
    \E p, q \in Clients :
        /\ p # q /\ initialized /\ semaphore = 1
        /\ pc[p] = "done" /\ op[p] = "delete_user_topic" /\ err[p] = "none"
        /\ pc[q] = "done" /\ op[q] = "delete_user_topic" /\ err[q] = "none"
        /\ uid[p] = uid[q] /\ deleted[p] /\ ~deleted[q]

\* C5: the committed rows never hold two rows with the same user_id nor two
\* rows with the same topic_id.
C5_Bijection ==
    \A x, y \in rows : (x[1] = y[1] \/ x[2] = y[2]) => x = y

\* C5 happens: two creates have committed the same topic for two users and
\* one row is left
C5_Witness ==
    \E p, q \in Clients :
        /\ p # q /\ initialized /\ semaphore = 1
        /\ pc[p] = "done" /\ op[p] = "create_user_topic" /\ err[p] = "none"
        /\ pc[q] = "done" /\ op[q] = "create_user_topic" /\ err[q] = "none"
        /\ uid[p] # uid[q] /\ tid[p] = tid[q]
        /\ Cardinality(rows) = 1

\* p calls a CRUD method in this step
CrudCalled(p) == pc[p] = "idle" /\ op'[p] \in CrudOps

NonPositive(o, u, t) ==
    CASE o = "get_user_topic"    -> u <= 0
      [] o = "delete_user_topic" -> u <= 0
      [] o = "get_user_by_topic" -> t <= 0
      [] o = "create_user_topic" -> u <= 0 \/ t <= 0

\* C7: a CRUD call with a non-positive identifier raises ValueError in the
\* step it is called in, in every store state, leaving the gate, the gate's
\* permits, the open connections and the rows as they were.
C7_ValidationFirst ==
    [][\A p \in Clients :
          CrudCalled(p) /\ NonPositive(op'[p], uid'[p], tid'[p]) =>
              /\ pc'[p] = "done" /\ err'[p] = "ValueError"
              /\ UNCHANGED <<semaphore, semValue, gate, conns, rows, writer,
                             initialized, lock>>]_vars

\* C7 happens: a create with topic_id 0 has raised ValueError on a Ready store
\* whose only slot is held by another call
C7_Witness ==
    \E p, q \in Clients :
        /\ p # q /\ initialized /\ semValue[semaphore] = 0
        /\ pc[q] = "query" /\ op[q] \in CrudOps
        /\ pc[p] = "done" /\ op[p] = "create_user_topic" /\ err[p] = "ValueError"
        /\ uid[p] > 0 /\ tid[p] = 0

\* p is inside the body of initialize, past the _initialized check
InInitialize(p) == op[p] = "initialize" /\ pc[p] \in {"connect", "query", "close"}

\* C8: on a store that was never closed and on which no initialize call has
\* raised, concurrent initialize calls run one schema-creation sequence and
\* create one gate; an initialize call that returns leaves the store Ready;
\* an initialize call that finds the store Ready creates no gate and runs no
\* schema creation.
C8_InitializeOnce ==
    /\ [](~everClosed /\ ~initRaised => schemaRuns <= 1 /\ semaphore <= 1)
    /\ [](Cardinality({p \in Clients : InInitialize(p)}) <= 1)
    /\ [][\A p \in Clients :
            /\ (op'[p] = "initialize" /\ pc[p] # "done" /\ pc'[p] = "done"
                   /\ err'[p] = "none") => initialized'
            /\ (op'[p] = "initialize" /\ pc[p] \in {"idle", "lock"}
                   /\ pc'[p] # pc[p] /\ initialized) =>
                   /\ pc'[p] = "done" /\ initialized'
                   /\ UNCHANGED <<semaphore, semValue, schemaRuns, schema>>]_vars

\* C8 happens: two initialize calls were in progress at once (one waited for
\* the lock), both have returned, one schema creation ran, one gate exists
C8_Witness ==
    /\ \A p \in Clients : pc[p] = "done" /\ op[p] = "initialize" /\ err[p] = "none"
    /\ initialized /\ schemaRuns = 1 /\ semaphore = 1
    /\ ~everClosed /\ ~initRaised

\* ----------------------------------------------------- claims on SpecMain

\* C9: once run_bot has cancelled the polling task because the shutdown task
\* completed first, main ends with the polling task awaited, then the session
\* closed, then the store closed, each once, and with no exception leaving main.
C9_ShutdownOrder ==
    (mainPc = "exit" /\ shutdownTask = "done" /\ pollingTask # "none"
        /\ \E i \in 1..Len(events) : events[i] = "cancel_polling") =>
        /\ events = <<"cancel_polling", "polling_awaited", "session_close", "store_close">>
        /\ sessionCloses = 1 /\ storeCloses = 1 /\ closed
        /\ mainExit = "returned"

\* C10: when the polling task failed and run_bot found the shutdown task
\* still pending, main logs the critical error and ends raising.
C10_FatalLoopFailure ==
    (mainPc = "exit" /\ pollingTask = "failed" /\ shutdownTask = "cancelled") =>
        /\ mainExit = "raised"
        /\ \E i \in 1..Len(events) : events[i] = "critical_logged"

\* a task between _get_connection's acquire and the end of its finally block
Holding(p) == pc[p] \in {"connect", "query", "commit", "close"}

\* C11: a store operation that acquired a gate slot gives it back exactly once
\* and closes its connection when it leaves _get_connection, on every exit
\* path: normal return, connect timeout or failure, query failure, failure of
\* conn.close(), cancellation of the task.
C11_NoLeak ==
    [][\A p \in Clients :
          Holding(p) /\ pc'[p] = "done"
              => /\ semValue'[semaphore] = semValue[semaphore] + 1
                 /\ p \notin conns']_vars

\* C12: on a Ready store an operation blocked at the admission gate is
\* eventually admitted.  An operation can only be admitted while the gate it
\* waits on has a free permit or some operation still holds a slot that it
\* will release into that gate; so, at every moment: a blocked operation
\* sees a free permit or a holder of a slot of its gate.
C12_WaiterCanProceed ==
    \A p \in Clients :
        pc[p] = "acquire" /\ initialized
            => \/ semValue[gate[p]] > 0
               \/ /\ gate[p] = semaphore
                  /\ \E q \in Clients \ {p} : Holding(q)

\* C13: in the running process the gate that initialize creates has the
\* capacity configured by MAX_DB_CONNECTIONS (default 5) and connections are
\* opened with the timeout configured by DB_TIMEOUT.  initialize takes one
\* of the new gate's permits in the step that creates it.
C13_GateFollowsConfig ==
    [][semaphore' # semaphore
          => /\ semValue'[semaphore'] + 1 = cfgMaxDbConnections
             /\ timeout' = cfgDbTimeout]_vars

\* C14: a CRUD operation whose connection open timed out gives its caller an
\* error whose kind differs from the kind given when the query or the driver
\* failed: of two finished calls, one ended by the timeout and one by a
\* driver failure, the exception classes differ.
C14_TimeoutDistinctKind ==
    \A p, q \in Clients :
        (/\ pc[p] = "done" /\ op[p] \in CrudOps /\ cause[p] = "Timeout"
         /\ pc[q] = "done" /\ op[q] \in CrudOps /\ cause[q] = "Driver")
            => err[p] # err[q]

\* C15: on every path by which run_bot exits after the polling and shutdown
\* tasks were started the session has been closed, and on every path by
\* which main exits after the store was initialized close() has been run:
\* when main has exited and the two tasks had been started, the session was
\* closed once and the store was closed once.
C15_UnconditionalTeardown ==
    (mainPc = "exit" /\ pollingTask # "none" /\ shutdownTask # "none")
        => /\ sessionCloses = 1
           /\ storeCloses = 1

\* C16: a CRUD call ended by an invalid argument or by the store not being
\* initialized gives its caller an error of its own kind, not the unified
\* store error, and writes no log entry in the store; a call ended by a
\* timeout or a driver failure is logged and gives the unified store error.
C16_PropagationPolicy ==
    \A p \in Clients :
        (pc[p] = "done" /\ op[p] \in CrudOps)
            => /\ cause[p] \in {"InvalidArgument", "NotInitialized"}
                    => ~logged[p] /\ err[p] # "DatabaseError"
               /\ cause[p] \in {"Timeout", "Driver"}
                    => logged[p] /\ err[p] = "DatabaseError"

\* p is admitted in this step: a CRUD call takes a slot of the gate
Admitted(p) ==
    /\ pc[p] \in {"idle", "acquire"}
    /\ pc'[p] = "connect"
    /\ op'[p] \in CrudOps

\* C17: only a Ready store admits data operations: no CRUD call takes a gate
\* slot while initialize has created the gate and not yet marked the store
\* Ready, nor after an initialize call that failed and left it not Ready.
\* (The store after close() is the subject of C6 and is left out here.)
C17_OnlyReadyAdmits ==
    [][\A p \in Clients : (Admitted(p) /\ ~closed) => initialized]_vars

\* the body of close runs in this step, for task p
CloseRuns(p) ==
    /\ op'[p] = "close"
    /\ pc[p] \in {"idle", "lock"}
    /\ pc'[p] = "done"

\* C18: close() returns without error in every store state (never
\* initialized, Ready, closed) and leaves the store not Ready with no pooled
\* connection; a close on a store that is already closed changes nothing of
\* the store; the body of close runs only while no task is inside initialize,
\* and a task inside initialize holds the lock.
C18_CloseIdempotentTotal ==
    /\ [](\A p \in Clients : InInitialize(p) => lock = p)
    /\ [][\A p \in Clients :
            CloseRuns(p)
                => /\ err'[p] = "none"
                   /\ ~initialized' /\ pool' = {}
                   /\ lock = NoTask /\ lock' = NoTask
                   /\ \A q \in Clients : ~InInitialize(q)
                   /\ closed => UNCHANGED <<initialized, pool, semaphore, semValue,
                                            schema, rows, writer, conns>>]_vars

\* C18 happens: the store was Ready, close() was called twice in a row and
\* both calls have returned
C18_Witness ==
    /\ \A p \in Clients : pc[p] = "done" /\ op[p] = "close" /\ err[p] = "none"
    /\ closed /\ ~initialized /\ pool = {}
    /\ semaphore = 1 /\ schemaRuns = 1 /\ ~initRaised

\* C20: permit conservation: in every reachable state, whatever the
\* interleaving of initialize, close and CRUD calls, the free permits of the
\* current gate plus the number of operations holding a slot equal
\* max_connections.
C20_PermitConservation ==
    semaphore # None
        => semValue[semaphore] + Cardinality({p \in Clients : Holding(p)})
               = max_connections

\* ------------------------------------------------------ claims on SpecSeq

\* C19: when topic t is mapped to user u1 and create_user_topic(u2, t) with
\* u2 # u1 commits, the call has no error, t is mapped to u2 and u2 to t,
\* u1 has no mapping left, and the mapping of every other user is unchanged.
C19_TopicCollision ==
    [][\A p \in Clients :
          (CreateCommits(p) /\ SelectUser(rows, tid[p]) \notin {None, uid[p]})
              => LET u1 == SelectUser(rows, tid[p]) IN
                 /\ err'[p] = "none"
                 /\ SelectUser(rows', tid[p]) = uid[p]
                 /\ SelectTopic(rows', uid[p]) = tid[p]
                 /\ SelectTopic(rows', u1) = None
                 /\ \A u \in (SeqIds \ {0, u1, uid[p]}) :
                        SelectTopic(rows', u) = SelectTopic(rows, u)]_vars

\* C19 happens: p's create_user_topic(u1, t) had returned, then q's
\* create_user_topic(u2, t) with u2 # u1 has committed while a third user
\* holds another topic: t belongs to u2, u1 has no row, the third row stays
C19_Witness ==
    \E p, q \in Clients :
        /\ pc[p] = "done" /\ op[p] = "create_user_topic" /\ err[p] = "none"
        /\ pc[q] = "close" /\ op[q] = "create_user_topic" /\ err[q] = "none"
        /\ uid[p] # uid[q] /\ tid[p] = tid[q]
        /\ SelectUser(rows, tid[q]) = uid[q]
        /\ SelectTopic(rows, uid[p]) = None
        /\ \E x \in rows : x[1] \notin {uid[p], uid[q]}

====
